---- MODULE Spec2Model ----
(***************************************************************************)
(* Token validation and context-scoped access checks of the nestjs-auth    *)
(* package: TokenExtractorService, AuthValidatorService (with its          *)
(* process-wide introspection cache), AuthGuard, PermissionGuard and       *)
(* RoleGuard.                                                              *)
(*                                                                         *)
(* Strings whose characters the code inspects (header values, tokens) are  *)
(* sequences of one-character strings.  A JavaScript value that may be     *)
(* undefined is an option: <<>> is undefined, <<v>> is the value v.        *)
(* JSON values of a response body are tagged strings: "true" and "false"   *)
(* are the booleans, "undefined" an absent field, "'false'" the string     *)
(* 'false', "''" the empty string.                                         *)
(***************************************************************************)
EXTENDS Integers, Sequences, FiniteSets, TLC

(* ---------------------------- bounds ----------------------------------- *)

NumTasks == 2
TicksPerTTL == 2
MaxTicks == 2

(* ------------------------ program constants ---------------------------- *)

INTROSPECTION_TTL_MS == 30000

BearerPrefixLen == 7

ServerErrorFloor == 500

(* the timeout of the HttpService the validator posts with, in ms: the post
   calls pass none and the module imports HttpModule as it is, which leaves
   axios' default of 0, no timeout *)
HttpTimeoutMs == 0

(* ------------------------------ values --------------------------------- *)

UNDEF == "undefined"

None == << >>

Some(v) == << v >>

IsSome(o) == Len(o) = 1

The(o) == o[1]

Tasks == 1 .. NumTasks

TickMs == INTROSPECTION_TTL_MS \div TicksPerTTL

MaxNow == MaxTicks * TickMs

T1 == << "T", "1" >>

T2 == << "T", "2" >>

Tokens == { T1, T2 }

BearerPrefix == << "B", "e", "a", "r", "e", "r", " " >>

LowerBearerPrefix == << "b", "e", "a", "r", "e", "r", " " >>

BasicPrefix == << "B", "a", "s", "i", "c", " " >>

EmptyString == << >>

(* values of the Authorization header of an inbound request *)
AuthorizationHeaders ==
    { None, Some(BearerPrefix \o T1), Some(BearerPrefix \o T2), Some(BearerPrefix),
      Some(LowerBearerPrefix \o T1), Some(BasicPrefix \o T1) }

(* values of the access_token cookie; CookieJars adds a request without cookies *)
CookieValues == { None, Some(EmptyString), Some(T1), Some(T2) }

CookieJars == { None } \cup { Some(c) : c \in CookieValues }

(* values of process.env.NODE_ENV *)
UpperDevelopment == "DEVELOPMENT"

NodeEnvs == { None, Some("development"), Some(UpperDevelopment), Some("production") }

(* HTTP statuses an authority response may carry *)
Statuses == { 200, 401, 499, 500, 503 }

JsFalsy == { "false", UNDEF, "null", "''", "0" }

(* Boolean(v) / !v of JavaScript on a tagged JSON value *)
ToBoolean(v) == v \notin JsFalsy

(* !s for a string-or-undefined s held as an option of a character sequence *)
IsBlank(o) == (~ IsSome(o)) \/ The(o) = EmptyString

(* ------------------------------ state ---------------------------------- *)

VARIABLES
    now,          \* Date.now(), in ms
    nodeEnv,      \* process.env.NODE_ENV
    tokenCache,   \* the module-level Map: token -> [user, expiresAt]
    task,         \* one record per request being handled
    last,         \* the call made by the latest step: its inputs and its result
    lastSuccess,  \* per token: latest successful validateToken under caching
    lastStored    \* per token: latest successful introspection under caching

vars == << now, nodeEnv, tokenCache, task, last, lastSuccess, lastStored >>

(* ------------------------------ inputs --------------------------------- *)

ORG1 == << "o", "1" >>

W1 == << "w", "1" >>

O1 == << "o", "b" >>

Blanks == << " ", " " >>

Padded(s) == << " " >> \o s \o << " " >>

(* values of the x-org-id header *)
OrgHeaders == { None, Some(EmptyString), Some(Blanks), Some(ORG1), Some(Padded(ORG1)) }

(* values of the x-workspace-id and x-object-id headers, as pairs *)
ScopeHeaders ==
    { << None, None >>, << Some(W1), Some(O1) >>, << Some(Padded(W1)), None >>,
      << Some(Blanks), Some(EmptyString) >> }

(* what the Reflector returns for the 'permissions' / 'roles' metadata *)
Requirements ==
    { [type |-> "undefined"],
      [type |-> "string", str |-> "a"],
      [type |-> "array", arr |-> << >>],
      [type |-> "array", arr |-> << "a" >>],
      [type |-> "array", arr |-> << "a", "b" >>] }

(* what the Reflector returns for the 'match' metadata *)
MatchModes == { None, Some("any"), Some("all") }

UpstreamUser(sub) ==
    [sub |-> sub, role |-> UNDEF, permissions |-> UNDEF, accessToken |-> T1]

(* request.user as found by a guard that runs without AuthGuard before it *)
UpstreamUsers ==
    { None, Some(UpstreamUser(UNDEF)), Some(UpstreamUser("''")), Some(UpstreamUser("u1")) }

(* ------------------------ TokenExtractorService ------------------------ *)

(* String.prototype.startsWith *)
StartsWith(s, prefix) ==
    /\ Len(s) >= Len(prefix)
    /\ SubSeq(s, 1, Len(prefix)) = prefix

(* String.prototype.substring(from), from counted from 0 *)
Substring(s, from) == SubSeq(s, from + 1, Len(s))

(* faulty variant of extractToken: the cookie is looked at first *)
extractTokenCookieFirst(authHeader, cookies) ==
    IF IsSome(cookies) /\ ~ IsBlank(The(cookies))
    THEN The(cookies)
    ELSE IF IsSome(authHeader) /\ The(authHeader) # EmptyString
              /\ StartsWith(The(authHeader), BearerPrefix)
         THEN Some(Substring(The(authHeader), BearerPrefixLen))
         ELSE None

(* faulty variant of extractToken: the prefix is matched in either case *)
extractTokenAnyCase(authHeader, cookies) ==
    IF IsSome(authHeader) /\ The(authHeader) # EmptyString
          /\ ( \/ StartsWith(The(authHeader), BearerPrefix)
               \/ StartsWith(The(authHeader), LowerBearerPrefix) )
    THEN Some(Substring(The(authHeader), BearerPrefixLen))
    ELSE IF IsSome(cookies) /\ ~ IsBlank(The(cookies))
         THEN The(cookies)
         ELSE None

(* faulty variant of extractToken: an empty cookie is returned as it is *)
extractTokenEmptyCookie(authHeader, cookies) ==
    IF IsSome(authHeader) /\ The(authHeader) # EmptyString
          /\ StartsWith(The(authHeader), BearerPrefix)
    THEN Some(Substring(The(authHeader), BearerPrefixLen))
    ELSE IF IsSome(cookies) /\ IsSome(The(cookies))
         THEN The(cookies)
         ELSE None

(* faulty variant of extractToken: a header with nothing after the prefix
   gives way to the cookie *)
extractTokenBareFallsBack(authHeader, cookies) ==
    IF IsSome(authHeader) /\ The(authHeader) # EmptyString
          /\ StartsWith(The(authHeader), BearerPrefix)
          /\ Substring(The(authHeader), BearerPrefixLen) # EmptyString
    THEN Some(Substring(The(authHeader), BearerPrefixLen))
    ELSE IF IsSome(cookies) /\ ~ IsBlank(The(cookies))
         THEN The(cookies)
         ELSE None

(* extractToken: authHeader is headers['authorization'], cookies is
   request.cookies (None when the request has no cookies object) *)
extractToken(authHeader, cookies) ==
    IF IsSome(authHeader) /\ The(authHeader) # EmptyString
          /\ StartsWith(The(authHeader), BearerPrefix)
    THEN Some(Substring(The(authHeader), BearerPrefixLen))
    ELSE IF IsSome(cookies) /\ ~ IsBlank(The(cookies))
         THEN The(cookies)
         ELSE None

(* ------------------------ AuthValidatorService ------------------------- *)

(* String.prototype.toLowerCase on the values NODE_ENV takes here *)
ToLowerCase(s) == IF s = UpperDevelopment THEN "development" ELSE s

isDevEnv(env) ==
    ToLowerCase(IF IsSome(env) THEN The(env) ELSE "") = "development"

(* faulty variant of CacheFresh: an entry is still served at its expiresAt *)
CacheFreshInclusive(cache, token, t) ==
    /\ token \in DOMAIN cache
    /\ cache[token].expiresAt >= t

(* cached && cached.expiresAt > Date.now() *)
CacheFresh(cache, token, t) ==
    /\ token \in DOMAIN cache
    /\ cache[token].expiresAt > t

(* faulty variant of CacheLookup: the cache is consulted in development too *)
CacheLookupInDev(cache, env, token, t) ==
    IF CacheFresh(cache, token, t)
    THEN Some(cache[token].user)
    ELSE None

(* the lookup at the head of validateToken: the cached user, or None *)
CacheLookup(cache, env, token, t) ==
    IF (~ isDevEnv(env)) /\ CacheFresh(cache, token, t)
    THEN Some(cache[token].user)
    ELSE None

(* tokenCache.set(token, entry) *)
MapSet(cache, token, entry) ==
    [k \in DOMAIN cache \cup {token} |-> IF k = token THEN entry ELSE cache[k]]

(* faulty variant of CacheAfterHit: a hit renews the entry's 30 s *)
CacheAfterHitSlides(cache, token, t) ==
    MapSet(cache, token, [user |-> cache[token].user, expiresAt |-> t + INTROSPECTION_TTL_MS])

(* the map once validateToken has returned the cached user: as it was *)
CacheAfterHit(cache, token, t) == cache

(* faulty variant of CacheStore: an entry that exists is left as it is *)
CacheStoreKeepsOld(cache, env, token, user, t) ==
    IF ( ~ isDevEnv(env) ) /\ token \notin DOMAIN cache
    THEN MapSet(cache, token, [user |-> user, expiresAt |-> t + INTROSPECTION_TTL_MS])
    ELSE cache

(* faulty variant of CacheStore: an entry that has not expired is kept *)
CacheStoreKeepsFresh(cache, env, token, user, t) ==
    IF ( ~ isDevEnv(env) ) /\ ~ CacheFresh(cache, token, t)
    THEN MapSet(cache, token, [user |-> user, expiresAt |-> t + INTROSPECTION_TTL_MS])
    ELSE cache

(* faulty variant of CacheStore: the entry expires the moment it is stored *)
CacheStoreNoTtl(cache, env, token, user, t) ==
    IF ~ isDevEnv(env)
    THEN MapSet(cache, token, [user |-> user, expiresAt |-> t])
    ELSE cache

(* the store at the end of a successful validateToken *)
CacheStore(cache, env, token, user, t) ==
    IF ~ isDevEnv(env)
    THEN MapSet(cache, token, [user |-> user, expiresAt |-> t + INTROSPECTION_TTL_MS])
    ELSE cache

(* faulty variant of CacheAfterFailure: a failed validation clears the map *)
CacheAfterFailureClears(cache, token) == << >>

(* the map once a validateToken call has failed: the inactive branch and the
   catch block do not touch it *)
CacheAfterFailure(cache, token) == cache

(* axios' default validateStatus: the promise resolves on a 2xx response and
   rejects on every other outcome *)
AxiosResolves(o) ==
    /\ o.kind = "response"
    /\ o.status >= 200
    /\ o.status < 300

(* axiosErr?.response?.status of the rejection *)
ErrorStatus(o) == IF o.kind = "response" THEN Some(o.status) ELSE None

(* response.data?.<field> *)
Field(data, f) == IF IsSome(data) THEN The(data)[f] ELSE UNDEF

(* faulty variant of IntrospectUnavailable: status > 500 *)
IntrospectUnavailableAbove500(status) ==
    \/ ~ IsSome(status)
    \/ The(status) = 0
    \/ The(status) > ServerErrorFloor

(* faulty variant of IntrospectUnavailable: every error status counts *)
IntrospectUnavailableFrom400(status) ==
    \/ ~ IsSome(status)
    \/ The(status) = 0
    \/ The(status) >= 400

(* !status || status >= 500, in validateToken *)
IntrospectUnavailable(status) ==
    \/ ~ IsSome(status)
    \/ The(status) = 0
    \/ The(status) >= ServerErrorFloor

(* faulty variant of BuildUser: the User carries a token of its own *)
BuildUserFixedToken(token, data) ==
    [ sub         |-> Field(data, "sub"),
      role        |-> Field(data, "role"),
      permissions |-> Field(data, "permissions"),
      accessToken |-> T1 ]

BuildUser(token, data) ==
    [ sub         |-> Field(data, "sub"),
      role        |-> Field(data, "role"),
      permissions |-> Field(data, "permissions"),
      accessToken |-> token ]

(* faulty variant of ValidateOutcome: the active flag is not looked at *)
ValidateOutcomeNoActiveCheck(token, o) ==
    IF AxiosResolves(o)
    THEN [res |-> "ok", user |-> Some(BuildUser(token, o.data))]
    ELSE IF IntrospectUnavailable(ErrorStatus(o))
         THEN [res |-> "ServiceUnavailable", user |-> None]
         ELSE [res |-> "Unauthorized", user |-> None]

(* faulty variant of ValidateOutcome: the rejection of a 4xx answer is
   rethrown as it came *)
ValidateOutcomeRethrows(token, o) ==
    IF AxiosResolves(o)
    THEN IF ~ ToBoolean(Field(o.data, "active"))
         THEN [res |-> "Unauthorized", user |-> None]
         ELSE [res |-> "ok", user |-> Some(BuildUser(token, o.data))]
    ELSE IF IntrospectUnavailable(ErrorStatus(o))
         THEN [res |-> "ServiceUnavailable", user |-> None]
         ELSE [res |-> "AxiosError", user |-> None]

(* what validateToken makes of the outcome o of its introspection request *)
ValidateOutcome(token, o) ==
    IF AxiosResolves(o)
    THEN IF ~ ToBoolean(Field(o.data, "active"))
         THEN [res |-> "Unauthorized", user |-> None]
         ELSE [res |-> "ok", user |-> Some(BuildUser(token, o.data))]
    ELSE IF IntrospectUnavailable(ErrorStatus(o))
         THEN [res |-> "ServiceUnavailable", user |-> None]
         ELSE [res |-> "Unauthorized", user |-> None]

(* faulty variant of RequestsAfter: a failed request is sent once more *)
RequestsAfterRetrying(req, o) == IF AxiosResolves(o) THEN << >> ELSE << req >>

(* the requests that validateToken, checkPermission and checkRole issue once
   their request req has the outcome o: none, on the success path and in the
   catch block alike *)
RequestsAfter(req, o) == << >>

(* ------------------------ the remote authority ------------------------- *)

IntrospectBody(active, sub, role, permissions) ==
    [active |-> active, sub |-> sub, role |-> role, permissions |-> permissions]

IntrospectData ==
    { None,
      Some(IntrospectBody("false", UNDEF, UNDEF, UNDEF)),
      Some(IntrospectBody(UNDEF, "u1", UNDEF, UNDEF)),
      Some(IntrospectBody("true", "u1", "r", "p1")),
      Some(IntrospectBody("true", "u2", UNDEF, UNDEF)),
      Some(IntrospectBody("true", UNDEF, UNDEF, UNDEF)),
      Some(IntrospectBody("'false'", "u1", UNDEF, UNDEF)) }

CheckBody(hasPermission, hasRole) ==
    [hasPermission |-> hasPermission, hasRole |-> hasRole]

CheckData ==
    { None,
      Some(CheckBody(UNDEF, UNDEF)),
      Some(CheckBody("true", "true")),
      Some(CheckBody("false", "false")),
      Some(CheckBody("true", UNDEF)),
      Some(CheckBody(UNDEF, "true")),
      Some(CheckBody("'false'", "'false'")) }

HttpOutcomes(datas) ==
    { [kind |-> k, status |-> 0, data |-> None] : k \in {"neterr", "timeout"} }
    \cup { [kind |-> "response", status |-> s, data |-> d] : s \in Statuses, d \in datas }

(* ------------------------------ requests ------------------------------- *)

(* pc: "idle" no request; "introspect" AuthGuard awaits validateToken's
   request; "authed" AuthGuard has let the request through; "checkPermission"
   and "checkRole" the guard awaits the access check.  user is request.user;
   authed: request.user was set by AuthGuard on this request; overlapped:
   another call of validateToken for the same token stored its User while
   this call's introspection request was in flight; consulted: isDevEnv()
   was false at line 33 of the validateToken call in flight. *)
IdleTask ==
    [pc |-> "idle", token |-> None, user |-> None, inflight |-> None, authed |-> FALSE,
     overlapped |-> FALSE, consulted |-> FALSE]

IntrospectRequest(token) == [to |-> "introspect", token |-> token]

(* faulty variant of IntrospectRequests: a call joins the request that
   another call has in flight for the same token *)
IntrospectRequestsCoalesced(token, others) ==
    IF others # { } THEN << >> ELSE << IntrospectRequest(token) >>

(* the requests validateToken issues past the cache lookup: one of its own.
   others: the calls that have a request for the same token in flight *)
IntrospectRequests(token, others) == << IntrospectRequest(token) >>

(* the request goes on to the next guard of its route, or is over.  token
   stays on record as the token this request was authenticated with *)
AfterAuth(token, user, more) ==
    IF more
    THEN [pc |-> "authed", token |-> token, user |-> user, inflight |-> None,
          authed |-> TRUE, overlapped |-> FALSE, consulted |-> FALSE]
    ELSE IdleTask

(* ------------------------------ AuthGuard ------------------------------ *)

(* faulty variant of NoToken: only an absent token counts *)
NoTokenUndefinedOnly(token) == ~ IsSome(token)

(* !token, in AuthGuard.canActivate *)
NoToken(token) == IsBlank(token)

(* what AuthGuard.canActivate makes of validateToken's result *)
AuthGuardOutcome(res) ==
    CASE res = "ok" -> "allow"
      [] res = "ServiceUnavailable" -> "503"
      [] OTHER -> "401"

Success(user, t) == Some([at |-> t, user |-> user])

(* a stored introspection: by is the instance that stored it, 0 when the
   instance is not put on record *)
Stored(user, t, by) == Some([at |-> t, user |-> user, by |-> by])

(* the AuthValidatorService instance that handles the request of task t:
   every request has an instance of its own *)
InstanceOf(t) == t

(* faulty variant of InstanceCache: only the first instance works on the
   shared map, every other instance on a map of its own *)
InstanceCacheOwn(i) == IF i = 1 THEN tokenCache ELSE << >>

(* the Map that instance i of AuthValidatorService reads and writes: the
   module-level constant, one for all instances *)
InstanceCache(i) == tokenCache

(* faulty variant of RequestUserAfter: a failure clears request.user *)
RequestUserCleared(before, out, user) == IF out = "allow" THEN user ELSE None

(* request.user once AuthGuard is through: assigned on success only *)
RequestUserAfter(before, out, user) == IF out = "allow" THEN user ELSE before

(* task u has an introspection request for token in flight *)
Overlaps(u, token) == task[u].pc = "introspect" /\ task[u].token = Some(token)

(* the calls that have an introspection request for token in flight *)
InFlight(token) == { u \in Tasks : Overlaps(u, token) }

(* before, user: request.user as the guard found it and as the step leaves it *)
AuthCall(t, hdr, jar, before, token, vres, out, user, sent) ==
    [op |-> "AuthGuard", t |-> t, authorization |-> hdr, cookies |-> jar, before |-> before,
     token |-> token, vres |-> vres, out |-> out,
     user |-> IF out = "pending" THEN before ELSE RequestUserAfter(before, out, user),
     sent |-> sent]

(* AuthGuard.canActivate up to the first await: extraction, the 401 of a
   missing token, and validateToken's cache lookup or the sending of the
   introspection request.  users: what request.user may hold when the guard
   starts; watched: the tasks whose decision at line 33 of validateToken is
   put on record; more: further guards follow on the route. *)
AuthGuardCanActivate(t, hdrs, jars, users, watched, more) ==
    /\ task[t].pc = "idle"
    /\ \E hdr \in hdrs, jar \in jars, prior \in users :
         LET token == extractToken(hdr, jar)
             hit   == CacheLookup(InstanceCache(InstanceOf(t)), nodeEnv, The(token), now)
         IN  IF NoToken(token)
             THEN /\ last' = AuthCall(t, hdr, jar, prior, token, "none", "401", None, << >>)
                  /\ UNCHANGED << task, lastSuccess, tokenCache >>
             ELSE IF IsSome(hit)
             THEN /\ last' = AuthCall(t, hdr, jar, prior, token, "ok", AuthGuardOutcome("ok"),
                                      hit, << >>)
                  /\ task' = [task EXCEPT ![t] = AfterAuth(token, hit, more)]
                  /\ tokenCache' = CacheAfterHit(tokenCache, The(token), now)
                  /\ lastSuccess' = [lastSuccess EXCEPT ![The(token)] = Success(The(hit), now)]
             ELSE /\ last' = AuthCall(t, hdr, jar, prior, token, "pending", "pending", None,
                                      IntrospectRequests(The(token), InFlight(The(token))))
                  /\ task' = [task EXCEPT ![t].pc = "introspect", ![t].token = token,
                                          ![t].user = prior,
                                          ![t].consulted = ( t \in watched /\ ~ isDevEnv(nodeEnv) ),
                                          ![t].inflight = Some(IntrospectRequest(The(token)))]
                  /\ UNCHANGED << lastSuccess, tokenCache >>
    /\ UNCHANGED << now, nodeEnv, lastStored >>

(* the continuation of validateToken and AuthGuard.canActivate once the
   introspection request has its outcome.  afterTick: the clock advanced in
   the step before, so the request was sent at an earlier time than now.
   watched: the tasks whose overlap with this call's store is put on record. *)
IntrospectResponse(t, outcomes, watched, more) ==
    /\ task[t].pc = "introspect"
    /\ \E o \in outcomes :
         LET token == The(task[t].token)
             r     == ValidateOutcome(token, o)
             out   == AuthGuardOutcome(r.res)
         IN  /\ last' = [op |-> "introspected", t |-> t, token |-> token, outcome |-> o,
                         vres |-> r.res, out |-> out,
                         before |-> task[t].user,
                         user |-> RequestUserAfter(task[t].user, out, r.user),
                         sent |-> RequestsAfter(The(task[t].inflight), o),
                         afterTick |-> last.op = "tick",
                         overlapped |-> task[t].overlapped,
                         consulted |-> task[t].consulted]
             /\ task' = [u \in Tasks |->
                           IF u = t
                           THEN IF out = "allow"
                                THEN AfterAuth(task[t].token, r.user, more)
                                ELSE IdleTask
                           ELSE IF /\ u \in watched
                                   /\ Overlaps(u, token)
                                   /\ r.res = "ok"
                                   /\ ~ isDevEnv(nodeEnv)
                                THEN [task[u] EXCEPT !.overlapped = TRUE]
                                ELSE task[u]]
             /\ IF r.res = "ok"
                THEN /\ tokenCache' = CacheStore(InstanceCache(InstanceOf(t)), nodeEnv, token,
                                                 The(r.user), now)
                     /\ IF ~ isDevEnv(nodeEnv)
                        THEN /\ lastSuccess' = [lastSuccess EXCEPT ![token] = Success(The(r.user), now)]
                             /\ lastStored' =
                                  [lastStored EXCEPT
                                     ![token] = Stored(The(r.user), now,
                                                       IF t \in watched THEN InstanceOf(t) ELSE 0)]
                        ELSE UNCHANGED << lastSuccess, lastStored >>
                ELSE /\ tokenCache' = CacheAfterFailure(tokenCache, token)
                     /\ UNCHANGED << lastSuccess, lastStored >>
    /\ UNCHANGED << now, nodeEnv >>

(* ---------------------- checkPermission / checkRole -------------------- *)

RECURSIVE TrimLeft(_)
TrimLeft(s) == IF s # << >> /\ Head(s) = " " THEN TrimLeft(Tail(s)) ELSE s

RECURSIVE TrimRight(_)
TrimRight(s) ==
    IF s # << >> /\ s[Len(s)] = " " THEN TrimRight(SubSeq(s, 1, Len(s) - 1)) ELSE s

(* String.prototype.trim *)
Trim(s) == TrimRight(TrimLeft(s))

(* faulty variant of OrgIdOf: the header is not trimmed *)
OrgIdOfNoTrim(hdr) == IF IsBlank(hdr) THEN EmptyString ELSE The(hdr)

(* String(headers['x-org-id'] || '').trim() *)
OrgIdOf(hdr) == Trim(IF IsBlank(hdr) THEN EmptyString ELSE The(hdr))

(* headers[h] ? String(headers[h]).trim() : undefined *)
ScopeIdOf(hdr) == IF IsBlank(hdr) THEN None ELSE Some(Trim(The(hdr)))

(* the context object the guards pass: orgId, workspaceId, objectId *)
GuardContext(org, scope) ==
    [orgId |-> OrgIdOf(org), workspaceId |-> ScopeIdOf(scope[1]),
     objectType |-> None, objectId |-> ScopeIdOf(scope[2])]

(* the array / single string / anything else reading of the metadata *)
RequirementList(required) ==
    CASE required.type = "array" -> Some(required.arr)
      [] required.type = "string" -> Some(<< required.str >>)
      [] OTHER -> None

(* faulty variant of NoRequirement: an empty list is not a missing one *)
NoRequirementUndefinedOnly(list) == ~ IsSome(list)

(* !permissions || permissions.length === 0 *)
NoRequirement(list) == ( ~ IsSome(list) ) \/ Len(The(list)) = 0

(* faulty variant of MatchOf: the default is 'any' *)
MatchOfDefaultAny(m) == IF IsSome(m) THEN The(m) ELSE "any"

(* reflector value || 'all' *)
MatchOf(m) == IF IsSome(m) THEN The(m) ELSE "all"

(* faulty variant of NoSubject: only a missing user is refused *)
NoSubjectUserOnly(user) == ~ IsSome(user)

(* !user || !user.sub *)
NoSubject(user) == (~ IsSome(user)) \/ ~ ToBoolean(The(user).sub)

PermissionCheckRequest(user, permissions, match, ctx) ==
    [to |-> "check-permission", userId |-> user.sub, orgId |-> ctx.orgId,
     workspaceId |-> ctx.workspaceId, objectType |-> ctx.objectType,
     objectId |-> ctx.objectId, permissions |-> permissions, match |-> match,
     bearer |-> user.accessToken]

RoleCheckRequest(user, roles, match, ctx) ==
    [to |-> "check-role", userId |-> user.sub, orgId |-> ctx.orgId,
     workspaceId |-> ctx.workspaceId, objectType |-> ctx.objectType,
     objectId |-> ctx.objectId, roles |-> roles, match |-> match,
     bearer |-> user.accessToken]

(* faulty variant of PermissionUnavailable: status > 500 *)
PermissionUnavailableAbove500(status) ==
    \/ ~ IsSome(status)
    \/ The(status) = 0
    \/ The(status) > 500

(* !status || status >= 500, in checkPermission *)
PermissionUnavailable(status) ==
    \/ ~ IsSome(status)
    \/ The(status) = 0
    \/ The(status) >= 500

(* what checkPermission makes of the outcome o of its request *)
CheckPermissionOutcome(o) ==
    IF AxiosResolves(o)
    THEN IF ToBoolean(Field(o.data, "hasPermission")) THEN "true" ELSE "false"
    ELSE IF PermissionUnavailable(ErrorStatus(o)) THEN "ServiceUnavailable" ELSE "false"

(* faulty variant of RoleUnavailable: every error status counts *)
RoleUnavailableFrom400(status) ==
    \/ ~ IsSome(status)
    \/ The(status) = 0
    \/ The(status) >= 400

(* faulty variant of RoleUnavailable: a 5xx answer does not count *)
RoleUnavailableNoStatusOnly(status) ==
    \/ ~ IsSome(status)
    \/ The(status) = 0

(* !status || status >= 500, in checkRole *)
RoleUnavailable(status) ==
    \/ ~ IsSome(status)
    \/ The(status) = 0
    \/ The(status) >= 500

(* faulty variant of CheckRoleOutcome: only the boolean true counts *)
CheckRoleOutcomeStrict(o) ==
    IF AxiosResolves(o)
    THEN IF Field(o.data, "hasRole") = "true" THEN "true" ELSE "false"
    ELSE IF RoleUnavailable(ErrorStatus(o)) THEN "ServiceUnavailable" ELSE "false"

(* what checkRole makes of the outcome o of its request *)
CheckRoleOutcome(o) ==
    IF AxiosResolves(o)
    THEN IF ToBoolean(Field(o.data, "hasRole")) THEN "true" ELSE "false"
    ELSE IF RoleUnavailable(ErrorStatus(o)) THEN "ServiceUnavailable" ELSE "false"

(* faulty variant of CheckRequests: a decision made before for the same
   request is reused instead of asking the authority again *)
CheckRequestsMemoized(req, repeat) == IF IsSome(repeat) THEN << >> ELSE << req >>

(* the requests that checkPermission / checkRole issue when called: the one
   request, whatever was decided before.  repeat: the result of the check
   that ended in the step before, when it was for the same request *)
CheckRequests(req, repeat) == << req >>

(* --------------------- PermissionGuard / RoleGuard --------------------- *)

(* faulty variant of PermissionGuardOutcome: the 503 is not rethrown *)
PermissionGuardOutcomeSwallows(res) ==
    CASE res = "true" -> "allow"
      [] OTHER -> "403"

(* what PermissionGuard.canActivate makes of checkPermission's result *)
PermissionGuardOutcome(res) ==
    CASE res = "true" -> "allow"
      [] res = "ServiceUnavailable" -> "503"
      [] OTHER -> "403"

(* what RoleGuard.canActivate makes of checkRole's result *)
RoleGuardOutcome(res) ==
    CASE res = "true" -> "allow"
      [] res = "ServiceUnavailable" -> "503"
      [] OTHER -> "403"

(* request.user as the guard finds it: AuthGuard's, or what was there *)
RequestUsers(t, upstream) == IF task[t].pc = "authed" THEN { task[t].user } ELSE upstream

GuardCall(op, t, required, m, user, org, scope, cres, out, sent, repeat) ==
    [op |-> op, t |-> t, authed |-> task[t].authed, required |-> required, match |-> m,
     user |-> user, org |-> org, scope |-> scope, cres |-> cres, out |-> out, sent |-> sent,
     repeat |-> repeat]

(* the result of the check that ended in the step before, when that check
   was of the kind checked and for the request req *)
Repeated(checked, req) ==
    IF last.op = checked /\ last.req = req THEN Some(last.cres) ELSE None

(* the repeat mark of the guard call that the step before made for task t *)
RepeatOf(guard, t) ==
    IF last.op = guard /\ last.t = t THEN last.repeat ELSE None

(* PermissionGuard.canActivate up to the await of checkPermission *)
PermissionGuardCanActivate(t, inputs, upstream) ==
    /\ task[t].pc \in {"idle", "authed"}
    /\ \E in \in inputs, user \in RequestUsers(t, upstream) :
         LET required == in.required
             m == in.match
             org == in.org
             scope == in.scope
             permissions == RequirementList(required)
             ctx == GuardContext(org, scope)
             req == PermissionCheckRequest(The(user), The(permissions), MatchOf(m), ctx)
             repeat == Repeated("permissionChecked", req)
             call(cres, out, sent, again) ==
                 GuardCall("PermissionGuard", t, required, m, user, org, scope, cres, out, sent, again)
         IN  IF NoRequirement(permissions)
             THEN /\ last' = call("none", "allow", << >>, None)
                  /\ task' = [task EXCEPT ![t] = IdleTask]
             ELSE IF NoSubject(user)
             THEN /\ last' = call("none", "403", << >>, None)
                  /\ task' = [task EXCEPT ![t] = IdleTask]
             ELSE IF ctx.orgId = EmptyString
             THEN /\ last' = call("none", "400", << >>, None)
                  /\ task' = [task EXCEPT ![t] = IdleTask]
             ELSE /\ last' = call("pending", "pending", CheckRequests(req, repeat), repeat)
                  /\ task' = [task EXCEPT ![t].pc = "checkPermission", ![t].user = user,
                                          ![t].inflight = Some(req)]
    /\ UNCHANGED << now, nodeEnv, tokenCache, lastSuccess, lastStored >>

(* the continuation of checkPermission and PermissionGuard.canActivate *)
PermissionCheckResponse(t, outcomes) ==
    /\ task[t].pc = "checkPermission"
    /\ \E o \in outcomes :
         /\ last' = [op |-> "permissionChecked", t |-> t, authed |-> task[t].authed,
                     repeat |-> RepeatOf("PermissionGuard", t),
                     req |-> The(task[t].inflight),
                     outcome |-> o, cres |-> CheckPermissionOutcome(o),
                     out |-> PermissionGuardOutcome(CheckPermissionOutcome(o)),
                     sent |-> RequestsAfter(The(task[t].inflight), o)]
         /\ task' = [task EXCEPT ![t] = IdleTask]
    /\ UNCHANGED << now, nodeEnv, tokenCache, lastSuccess, lastStored >>

(* RoleGuard.canActivate up to the await of checkRole *)
RoleGuardCanActivate(t, inputs, upstream) ==
    /\ task[t].pc \in {"idle", "authed"}
    /\ \E in \in inputs, user \in RequestUsers(t, upstream) :
         LET required == in.required
             m == in.match
             org == in.org
             scope == in.scope
             roles == RequirementList(required)
             ctx == GuardContext(org, scope)
             req == RoleCheckRequest(The(user), The(roles), MatchOf(m), ctx)
             repeat == Repeated("roleChecked", req)
             call(cres, out, sent, again) ==
                 GuardCall("RoleGuard", t, required, m, user, org, scope, cres, out, sent, again)
         IN  IF NoRequirement(roles)
             THEN /\ last' = call("none", "allow", << >>, None)
                  /\ task' = [task EXCEPT ![t] = IdleTask]
             ELSE IF NoSubject(user)
             THEN /\ last' = call("none", "403", << >>, None)
                  /\ task' = [task EXCEPT ![t] = IdleTask]
             ELSE IF ctx.orgId = EmptyString
             THEN /\ last' = call("none", "400", << >>, None)
                  /\ task' = [task EXCEPT ![t] = IdleTask]
             ELSE /\ last' = call("pending", "pending", CheckRequests(req, repeat), repeat)
                  /\ task' = [task EXCEPT ![t].pc = "checkRole", ![t].user = user,
                                          ![t].inflight = Some(req)]
    /\ UNCHANGED << now, nodeEnv, tokenCache, lastSuccess, lastStored >>

(* the continuation of checkRole and RoleGuard.canActivate *)
RoleCheckResponse(t, outcomes) ==
    /\ task[t].pc = "checkRole"
    /\ \E o \in outcomes :
         /\ last' = [op |-> "roleChecked", t |-> t, authed |-> task[t].authed,
                     repeat |-> RepeatOf("RoleGuard", t),
                     req |-> The(task[t].inflight),
                     outcome |-> o, cres |-> CheckRoleOutcome(o),
                     out |-> RoleGuardOutcome(CheckRoleOutcome(o)),
                     sent |-> RequestsAfter(The(task[t].inflight), o)]
         /\ task' = [task EXCEPT ![t] = IdleTask]
    /\ UNCHANGED << now, nodeEnv, tokenCache, lastSuccess, lastStored >>

(* no further guard on the route: the handler runs and the request is over *)
Finish(t) ==
    /\ task[t].pc = "authed"
    /\ task' = [task EXCEPT ![t] = IdleTask]
    /\ last' = [op |-> "finish", t |-> t]
    /\ UNCHANGED << now, nodeEnv, tokenCache, lastSuccess, lastStored >>

(* ------------------- the middleware of the examples -------------------- *)

(* pc of a request in the middleware chain: "mwIntrospect" AuthMiddleware
   awaits validateToken's request; "mwNext" a middleware has called next();
   "mwCheckPermission" and "mwCheckRole" the middleware awaits the check *)

(* what AuthMiddleware.use answers once validateToken is through: next() on
   a User, and the 401 of its catch block on everything thrown *)
AuthMiddlewareOutcome(res) ==
    CASE res = "ok" -> "next"
      [] OTHER -> "401"

(* what the permission middleware answers once checkPermission is through *)
PermissionMiddlewareOutcome(res) ==
    CASE res = "true" -> "next"
      [] res = "false" -> "403"
      [] OTHER -> "503"

(* what the role middleware answers once checkRole is through *)
RoleMiddlewareOutcome(res) ==
    CASE res = "true" -> "next"
      [] res = "false" -> "403"
      [] OTHER -> "503"

(* the context the middleware passes: the headers as they came *)
MiddlewareContext(org, scope) ==
    [orgId |-> The(org), workspaceId |-> scope[1], objectType |-> None, objectId |-> scope[2]]

AfterMiddleware(token, user) ==
    [pc |-> "mwNext", token |-> token, user |-> user, inflight |-> None,
     authed |-> TRUE, overlapped |-> FALSE, consulted |-> FALSE]

(* AuthMiddleware.use up to the first await *)
AuthMiddlewareUse(t, hdrs, jars) ==
    /\ task[t].pc = "idle"
    /\ \E hdr \in hdrs, jar \in jars :
         LET token == extractToken(hdr, jar)
             hit   == CacheLookup(InstanceCache(InstanceOf(t)), nodeEnv, The(token), now)
             call(vres, out, user, sent) ==
                 [op |-> "AuthMiddleware", t |-> t, authorization |-> hdr, cookies |-> jar,
                  token |-> token, vres |-> vres, out |-> out, user |-> user, sent |-> sent]
         IN  IF NoToken(token)
             THEN /\ last' = call("none", "401", None, << >>)
                  /\ UNCHANGED << task, lastSuccess, tokenCache >>
             ELSE IF IsSome(hit)
             THEN /\ last' = call("ok", AuthMiddlewareOutcome("ok"), hit, << >>)
                  /\ task' = [task EXCEPT ![t] = AfterMiddleware(token, hit)]
                  /\ tokenCache' = CacheAfterHit(tokenCache, The(token), now)
                  /\ lastSuccess' = [lastSuccess EXCEPT ![The(token)] = Success(The(hit), now)]
             ELSE /\ last' = call("pending", "pending", None, << IntrospectRequest(The(token)) >>)
                  /\ task' = [task EXCEPT ![t].pc = "mwIntrospect", ![t].token = token,
                                          ![t].inflight = Some(IntrospectRequest(The(token)))]
                  /\ UNCHANGED << lastSuccess, tokenCache >>
    /\ UNCHANGED << now, nodeEnv, lastStored >>

(* the continuation of validateToken and AuthMiddleware.use *)
AuthMiddlewareResume(t, outcomes) ==
    /\ task[t].pc = "mwIntrospect"
    /\ \E o \in outcomes :
         LET token == The(task[t].token)
             r     == ValidateOutcome(token, o)
             out   == AuthMiddlewareOutcome(r.res)
         IN  /\ last' = [op |-> "mwIntrospected", t |-> t, token |-> token, outcome |-> o,
                         vres |-> r.res, out |-> out,
                         user |-> IF out = "next" THEN r.user ELSE None,
                         sent |-> RequestsAfter(The(task[t].inflight), o)]
             /\ task' = [task EXCEPT ![t] = IF out = "next"
                                            THEN AfterMiddleware(task[t].token, r.user)
                                            ELSE IdleTask]
             /\ IF r.res = "ok"
                THEN /\ tokenCache' = CacheStore(InstanceCache(InstanceOf(t)), nodeEnv, token,
                                                 The(r.user), now)
                     /\ IF ~ isDevEnv(nodeEnv)
                        THEN /\ lastSuccess' = [lastSuccess EXCEPT ![token] = Success(The(r.user), now)]
                             /\ lastStored' = [lastStored EXCEPT ![token] = Stored(The(r.user), now, 0)]
                        ELSE UNCHANGED << lastSuccess, lastStored >>
                ELSE /\ tokenCache' = CacheAfterFailure(tokenCache, token)
                     /\ UNCHANGED << lastSuccess, lastStored >>
    /\ UNCHANGED << now, nodeEnv >>

(* the use method of the class createPermissionMiddleware returns, up to the
   await of checkPermission.  required, m: the arguments of the factory *)
PermissionMiddlewareUse(t, required, m, orgs, scopes) ==
    /\ task[t].pc \in { "idle", "mwNext" }
    /\ \E org \in orgs, scope \in scopes :
         LET user == task[t].user
             req  == PermissionCheckRequest(The(user), required, MatchOf(m),
                                            MiddlewareContext(org, scope))
             call(cres, out, sent) ==
                 [op |-> "PermissionMiddleware", t |-> t, user |-> user, org |-> org,
                  scope |-> scope, cres |-> cres, out |-> out, sent |-> sent]
         IN  IF ~ IsSome(user)
             THEN /\ last' = call("none", "401", << >>)
                  /\ task' = [task EXCEPT ![t] = IdleTask]
             ELSE IF IsBlank(org)
             THEN /\ last' = call("none", "400", << >>)
                  /\ task' = [task EXCEPT ![t] = IdleTask]
             ELSE /\ last' = call("pending", "pending", << req >>)
                  /\ task' = [task EXCEPT ![t].pc = "mwCheckPermission",
                                          ![t].inflight = Some(req)]
    /\ UNCHANGED << now, nodeEnv, tokenCache, lastSuccess, lastStored >>

(* the continuation of checkPermission and of the permission middleware *)
PermissionMiddlewareResume(t, outcomes) ==
    /\ task[t].pc = "mwCheckPermission"
    /\ \E o \in outcomes :
         /\ last' = [op |-> "mwPermissionChecked", t |-> t, req |-> The(task[t].inflight),
                     outcome |-> o, cres |-> CheckPermissionOutcome(o),
                     out |-> PermissionMiddlewareOutcome(CheckPermissionOutcome(o)),
                     sent |-> RequestsAfter(The(task[t].inflight), o)]
         /\ task' = [task EXCEPT ![t] = IdleTask]
    /\ UNCHANGED << now, nodeEnv, tokenCache, lastSuccess, lastStored >>

(* the use method of the class createRoleMiddleware returns, up to the await
   of checkRole *)
RoleMiddlewareUse(t, required, m, orgs, scopes) ==
    /\ task[t].pc \in { "idle", "mwNext" }
    /\ \E org \in orgs, scope \in scopes :
         LET user == task[t].user
             req  == RoleCheckRequest(The(user), required, MatchOf(m),
                                      MiddlewareContext(org, scope))
             call(cres, out, sent) ==
                 [op |-> "RoleMiddleware", t |-> t, user |-> user, org |-> org,
                  scope |-> scope, cres |-> cres, out |-> out, sent |-> sent]
         IN  IF ~ IsSome(user)
             THEN /\ last' = call("none", "401", << >>)
                  /\ task' = [task EXCEPT ![t] = IdleTask]
             ELSE IF IsBlank(org)
             THEN /\ last' = call("none", "400", << >>)
                  /\ task' = [task EXCEPT ![t] = IdleTask]
             ELSE /\ last' = call("pending", "pending", << req >>)
                  /\ task' = [task EXCEPT ![t].pc = "mwCheckRole",
                                          ![t].inflight = Some(req)]
    /\ UNCHANGED << now, nodeEnv, tokenCache, lastSuccess, lastStored >>

(* the continuation of checkRole and of the role middleware *)
RoleMiddlewareResume(t, outcomes) ==
    /\ task[t].pc = "mwCheckRole"
    /\ \E o \in outcomes :
         /\ last' = [op |-> "mwRoleChecked", t |-> t, req |-> The(task[t].inflight),
                     outcome |-> o, cres |-> CheckRoleOutcome(o),
                     out |-> RoleMiddlewareOutcome(CheckRoleOutcome(o)),
                     sent |-> RequestsAfter(The(task[t].inflight), o)]
         /\ task' = [task EXCEPT ![t] = IdleTask]
    /\ UNCHANGED << now, nodeEnv, tokenCache, lastSuccess, lastStored >>

(* the last middleware has called next(): the handler runs *)
MiddlewareDone(t) ==
    /\ task[t].pc = "mwNext"
    /\ task' = [task EXCEPT ![t] = IdleTask]
    /\ last' = [op |-> "finish", t |-> t]
    /\ UNCHANGED << now, nodeEnv, tokenCache, lastSuccess, lastStored >>

(* ------------------------------ environment ---------------------------- *)

Tick ==
    /\ now < MaxNow
    /\ now' = now + TickMs
    /\ last' = [op |-> "tick"]
    /\ UNCHANGED << nodeEnv, tokenCache, task, lastSuccess, lastStored >>

SetEnv(envs) ==
    /\ \E e \in envs : e # nodeEnv /\ nodeEnv' = e
    /\ last' = [op |-> "setenv"]
    /\ UNCHANGED << now, tokenCache, task, lastSuccess, lastStored >>

(* ---------------------- inputs of the concurrent runs ------------------ *)

CoreHeaders == { None, Some(BearerPrefix \o T1), Some(BearerPrefix \o T2) }

CoreJars == { None }

CoreEnvs == { Some("development"), Some("production") }

Response(status, data) == [kind |-> "response", status |-> status, data |-> data]

CoreIntrospect ==
    { [kind |-> "neterr", status |-> 0, data |-> None],
      Response(200, Some(IntrospectBody("false", UNDEF, UNDEF, UNDEF))),
      Response(200, Some(IntrospectBody("true", "u1", "r", "p1"))),
      Response(200, Some(IntrospectBody("true", "u2", UNDEF, UNDEF))) }

AccessHeaders == { None, Some(BearerPrefix \o T1) }

(* request.user before AuthGuard runs: unset, or left there by a middleware *)
NoPriorUser == { None }

PriorUsers == { None, Some(UpstreamUser("u0")) }

AccessIntrospect ==
    { [kind |-> "neterr", status |-> 0, data |-> None],
      Response(401, None),
      Response(500, None),
      Response(200, Some(IntrospectBody("true", "u1", "r", "p1"))),
      Response(200, Some(IntrospectBody("true", UNDEF, UNDEF, UNDEF))) }

GuardInput(required, m, org, scope) ==
    [required |-> required, match |-> m, org |-> org, scope |-> scope]

NoScope == << None, None >>

(* the route metadata and context headers of an access check: every
   requirement with every match mode and with every x-org-id value, and
   every pair of scope headers with and without x-org-id *)
AccessInputs ==
    { GuardInput(r, m, Some(ORG1), NoScope) : r \in Requirements, m \in MatchModes }
    \cup { GuardInput(r, None, o, NoScope) : r \in Requirements, o \in OrgHeaders }
    \cup { GuardInput([type |-> "array", arr |-> << "a" >>], None, o, sc) :
              o \in { None, Some(ORG1) }, sc \in ScopeHeaders }

(* the routes and headers of a request that runs AuthGuard and then an
   access guard: a requirement or none, x-org-id there or not *)
PipelineInputs ==
    { GuardInput(r, None, o, NoScope) :
        r \in { [type |-> "string", str |-> "a"], [type |-> "array", arr |-> << >>] },
        o \in { None, Some(ORG1) } }

PipelineChecks ==
    { [kind |-> "neterr", status |-> 0, data |-> None],
      Response(200, Some(CheckBody("true", "true"))),
      Response(200, Some(CheckBody("false", "false"))) }

(* --------------------------- specifications ---------------------------- *)

InitWith(envs) ==
    /\ now = 0
    /\ nodeEnv \in envs
    /\ tokenCache = << >>
    /\ task = [t \in Tasks |-> IdleTask]
    /\ last = [op |-> "init"]
    /\ lastSuccess = [k \in Tokens |-> None]
    /\ lastStored = [k \in Tokens |-> None]

(* concurrent validations against the shared cache, the clock running *)
Init == InitWith(CoreEnvs)

Next ==
    \/ \E t \in Tasks : AuthGuardCanActivate(t, CoreHeaders, CoreJars, NoPriorUser, { }, FALSE)
    \/ \E t \in Tasks : IntrospectResponse(t, CoreIntrospect, { }, FALSE)
    \/ Tick
    \/ SetEnv(CoreEnvs)

Spec == Init /\ [][Next]_vars

(* one request at a time, every authentication input and introspection outcome *)
InitAuth == InitWith(NodeEnvs)

NextAuth ==
    \/ AuthGuardCanActivate(1, AuthorizationHeaders, CookieJars, NoPriorUser, { 1 }, FALSE)
    \/ IntrospectResponse(1, HttpOutcomes(IntrospectData), { }, FALSE)
    \/ SetEnv(NodeEnvs)

SpecAuth == InitAuth /\ [][NextAuth]_vars

(* one request at a time through AuthGuard and an access guard, every
   access-check input and check outcome *)
InitAccess == InitWith({ Some("production") })

NextAccess ==
    \/ AuthGuardCanActivate(1, AccessHeaders, CoreJars, NoPriorUser, { }, TRUE)
    \/ IntrospectResponse(1, AccessIntrospect, { }, TRUE)
    \/ PermissionGuardCanActivate(1, AccessInputs, UpstreamUsers)
    \/ PermissionCheckResponse(1, HttpOutcomes(CheckData))
    \/ RoleGuardCanActivate(1, AccessInputs, UpstreamUsers)
    \/ RoleCheckResponse(1, HttpOutcomes(CheckData))
    \/ Finish(1)

SpecAccess == InitAccess /\ [][NextAccess]_vars

(* one request at a time from extraction to the access check: two tokens,
   a request.user left by a middleware, the cache in use *)
InitPipeline == InitWith({ Some("production") })

NextPipeline ==
    \/ AuthGuardCanActivate(1, CoreHeaders, CoreJars, PriorUsers, { }, TRUE)
    \/ IntrospectResponse(1, AccessIntrospect, { }, TRUE)
    \/ PermissionGuardCanActivate(1, PipelineInputs, NoPriorUser)
    \/ PermissionCheckResponse(1, PipelineChecks)
    \/ RoleGuardCanActivate(1, PipelineInputs, NoPriorUser)
    \/ RoleCheckResponse(1, PipelineChecks)
    \/ Finish(1)

SpecPipeline == InitPipeline /\ [][NextPipeline]_vars

(* concurrent validations with the cache in use and the clock running, the
   overlap of each call with the stores of the others on record *)
InitRace == InitWith({ Some("production") })

NextRace ==
    \/ \E t \in Tasks : AuthGuardCanActivate(t, AccessHeaders, CoreJars, NoPriorUser, { }, FALSE)
    \/ \E t \in Tasks : IntrospectResponse(t, CoreIntrospect, Tasks, FALSE)
    \/ Tick

SpecRace == InitRace /\ [][NextRace]_vars

(* one request at a time through AuthMiddleware and the permission or role
   middleware, as the usage example configures them *)
MiddlewareScopes == { NoScope, << Some(W1), Some(O1) >> }

InitMiddleware == InitWith({ Some("production") })

NextMiddleware ==
    \/ AuthMiddlewareUse(1, CoreHeaders, CoreJars)
    \/ AuthMiddlewareResume(1, AccessIntrospect)
    \/ PermissionMiddlewareUse(1, << "admin" >>, None, { None, Some(ORG1) }, MiddlewareScopes)
    \/ PermissionMiddlewareResume(1, HttpOutcomes(CheckData))
    \/ RoleMiddlewareUse(1, << "manager" >>, None, { None, Some(ORG1) }, MiddlewareScopes)
    \/ RoleMiddlewareResume(1, HttpOutcomes(CheckData))
    \/ MiddlewareDone(1)

SpecMiddleware == InitMiddleware /\ [][NextMiddleware]_vars

(* a request rejected by axios because its timeout ran out *)
TimedOut == [kind |-> "timeout", status |-> 0, data |-> None]

(* the timeout of a request in flight runs out; there is none to run out
   when the HttpService has no timeout *)
TimeoutExpires(t) ==
    /\ HttpTimeoutMs > 0
    /\ \/ IntrospectResponse(t, { TimedOut }, { }, TRUE)
       \/ PermissionCheckResponse(t, { TimedOut })
       \/ RoleCheckResponse(t, { TimedOut })

(* one request at a time through AuthGuard and an access guard, against an
   authority that answers, fails, or stays silent.  Nothing obliges the
   authority to answer: the only step that is bound to happen is the expiry
   of a configured timeout. *)
InitBounded == InitWith({ Some("production") })

NextBounded ==
    \/ AuthGuardCanActivate(1, CoreHeaders, CoreJars, NoPriorUser, { }, TRUE)
    \/ IntrospectResponse(1, AccessIntrospect \cup { TimedOut }, { }, TRUE)
    \/ PermissionGuardCanActivate(1, PipelineInputs, NoPriorUser)
    \/ PermissionCheckResponse(1, PipelineChecks \cup { TimedOut })
    \/ RoleGuardCanActivate(1, PipelineInputs, NoPriorUser)
    \/ RoleCheckResponse(1, PipelineChecks \cup { TimedOut })
    \/ Finish(1)

SpecBounded == InitBounded /\ [][NextBounded]_vars /\ WF_vars(TimeoutExpires(1))

(* ------------------------------ properties ----------------------------- *)

(* a validateToken(T) call is made by this step *)
ValidateCalled(T) == last'.op = "AuthGuard" /\ last'.token = Some(T)

(* the recorded success is less than 30 s old *)
Within30s(success) ==
    /\ IsSome(success)
    /\ now - The(success).at < INTROSPECTION_TTL_MS

(* the step's call was answered without a request, with the recorded user *)
ServedFromCache(success) ==
    /\ last'.sent = << >>
    /\ last'.vres = "ok"
    /\ last'.user = Some(The(success).user)

(* C1 as stated: with caching enabled, a validateToken(T) call made less
   than 30 s after any successful validateToken(T) issues no introspection
   request and returns the User of that earlier call. *)
C1_AfterAnySuccess ==
    [][ \A T \in Tokens :
          ( ValidateCalled(T) /\ (~ isDevEnv(nodeEnv)) /\ Within30s(lastSuccess[T]) )
          => ServedFromCache(lastSuccess[T]) ]_vars

(* C1 amended: with caching enabled, a validateToken(T) call made less than
   30 s after a validateToken(T) that succeeded through an introspection
   request issues no introspection request and returns the User that the
   latest such introspection of T returned. *)
C1_AfterIntrospection ==
    [][ \A T \in Tokens :
          ( ValidateCalled(T) /\ (~ isDevEnv(nodeEnv)) /\ Within30s(lastStored[T]) )
          => ServedFromCache(lastStored[T]) ]_vars

C1_Witness ==
    /\ last.op = "AuthGuard"
    /\ last.vres = "ok"
    /\ last.sent = << >>
    /\ \E T \in Tokens :
         /\ last.token = Some(T)
         /\ IsSome(lastStored[T])
         /\ The(lastStored[T]).at < now
         /\ now - The(lastStored[T]).at < INTROSPECTION_TTL_MS
         /\ last.user = Some(The(lastStored[T]).user)

(* C2: in development mode every validateToken call issues exactly one
   introspection request, whatever the cache holds, and neither the call nor
   its continuation changes the cache. *)
C2_DevelopmentBypass ==
    [][ /\ ( /\ last'.op = "AuthGuard"
             /\ ~ IsBlank(last'.token)
             /\ nodeEnv = Some("development") )
           => /\ last'.sent = << IntrospectRequest(The(last'.token)) >>
              /\ tokenCache' = tokenCache
        /\ ( last'.op = "introspected" /\ nodeEnv = Some("development") )
           => /\ last'.sent = << >>
              /\ tokenCache' = tokenCache ]_vars

C2_Witness ==
    /\ last.op = "AuthGuard"
    /\ nodeEnv = Some("development")
    /\ Len(last.sent) = 1
    /\ The(last.token) \in DOMAIN tokenCache
    /\ tokenCache[The(last.token)].expiresAt > now

Introspected == last.op = "introspected"

GotResponse == last.outcome.kind = "response"

(* the body says active: false, or has no active field *)
InactiveBody ==
    \/ ~ IsSome(last.outcome.data)
    \/ The(last.outcome.data).active \in { "false", UNDEF }

(* C3 as stated: an introspection response with active = false or without
   an active field makes validateToken fail with UnauthorizedException,
   whatever its HTTP status. *)
C3_InactiveAnyStatus ==
    ( Introspected /\ GotResponse /\ InactiveBody ) => last.vres = "Unauthorized"

(* C3 amended: an introspection response with active = false or without an
   active field makes validateToken fail with UnauthorizedException whenever
   its HTTP status is below 500 (2xx or 4xx). *)
C3_InactiveBelow500 ==
    ( Introspected /\ GotResponse /\ InactiveBody /\ last.outcome.status < 500 )
    => last.vres = "Unauthorized"

C3_Witness ==
    /\ Introspected
    /\ GotResponse
    /\ last.outcome.status = 200
    /\ IsSome(last.outcome.data)
    /\ The(last.outcome.data).active = "false"
    /\ last.vres = "Unauthorized"

(* C4: an introspection call that fails without a response, or whose
   response has status >= 500, makes validateToken fail with
   ServiceUnavailableException. *)
C4_Unavailable ==
    ( Introspected /\ ( (~ GotResponse) \/ last.outcome.status >= 500 ) )
    => last.vres = "ServiceUnavailable"

C4_Witness ==
    /\ Introspected
    /\ GotResponse
    /\ last.outcome.status = 500
    /\ last.vres = "ServiceUnavailable"

(* the response carries an error status below 500 *)
ClientError ==
    /\ GotResponse
    /\ last.outcome.status < 500
    /\ ~ (last.outcome.status >= 200 /\ last.outcome.status < 300)

(* C5: an introspection response with an error status below 500 makes
   validateToken fail with UnauthorizedException. *)
C5_ClientErrorUnauthorized ==
    ( Introspected /\ ClientError ) => last.vres = "Unauthorized"

C5_Witness ==
    /\ Introspected
    /\ last.outcome.status = 499
    /\ last.vres = "Unauthorized"

GuardEntered == last.op \in { "PermissionGuard", "RoleGuard" }

(* the route requires at least one permission / role *)
Restricted ==
    \/ last.required.type = "string"
    \/ last.required.type = "array" /\ last.required.arr # << >>

(* the header is absent or consists of spaces only *)
BlankHeader(h) == (~ IsSome(h)) \/ \A i \in DOMAIN The(h) : The(h)[i] = " "

(* request.user is there and has a non-empty sub *)
SubjectAttached ==
    /\ IsSome(last.user)
    /\ The(last.user).sub \notin { UNDEF, "''" }

(* C6 as stated: a guard with a non-empty requirement set and a blank
   x-org-id fails with 400 and issues no request, whether or not a User is
   attached. *)
C6_BlankOrgAlways400 ==
    ( GuardEntered /\ Restricted /\ BlankHeader(last.org) )
    => ( last.out = "400" /\ last.sent = << >> )

(* C6 amended: a guard with a non-empty requirement set and a blank x-org-id
   issues no request; it fails with 400 when a User with a non-empty subject
   is attached and with 403 when none is. *)
C6_BlankOrg400WithSubject ==
    ( GuardEntered /\ Restricted /\ BlankHeader(last.org) )
    => /\ last.sent = << >>
       /\ last.out = IF SubjectAttached THEN "400" ELSE "403"

C6_Witness ==
    /\ last.op = "RoleGuard"
    /\ Restricted
    /\ last.org = Some(Blanks)
    /\ SubjectAttached
    /\ last.out = "400"
    /\ last.sent = << >>

Checked == last.op \in { "permissionChecked", "roleChecked" }

(* C7: an access check answered with an error status below 500 returns
   false, and the guard fails with 403. *)
C7_ClientErrorDenies ==
    ( Checked /\ ClientError ) => ( last.cres = "false" /\ last.out = "403" )

C7_Witness ==
    /\ last.op = "roleChecked"
    /\ last.outcome.status = 499
    /\ last.cres = "false"
    /\ last.out = "403"

(* C8: an access check that gets no response, or a response with status
   >= 500, fails with ServiceUnavailableException and returns no boolean. *)
C8_CheckUnavailable ==
    ( Checked /\ ( (~ GotResponse) \/ last.outcome.status >= 500 ) )
    => last.cres = "ServiceUnavailable"

C8_Witness ==
    /\ last.op = "permissionChecked"
    /\ GotResponse
    /\ last.outcome.status = 500
    /\ last.cres = "ServiceUnavailable"

(* C9: a ServiceUnavailableException of validateToken, checkPermission or
   checkRole leaves the guard as 503. *)
C9_UnavailablePropagates ==
    /\ ( Introspected /\ last.vres = "ServiceUnavailable" ) => last.out = "503"
    /\ ( Checked /\ last.cres = "ServiceUnavailable" ) => last.out = "503"

C9_Witness ==
    /\ last.op = "permissionChecked"
    /\ last.cres = "ServiceUnavailable"
    /\ last.out = "503"

(* the decision field of the response the check received *)
Decision ==
    IF ~ IsSome(last.outcome.data)
    THEN UNDEF
    ELSE IF last.op = "permissionChecked"
         THEN The(last.outcome.data).hasPermission
         ELSE The(last.outcome.data).hasRole

SuccessResponse ==
    /\ GotResponse
    /\ last.outcome.status >= 200
    /\ last.outcome.status < 300

(* C10: fail closed.  A guard with a non-empty requirement set allows only
   on a success response whose decision field is true; a success response
   without a boolean decision field ends in 403. *)
C10_FailClosed ==
    /\ ( GuardEntered /\ Restricted ) => last.out # "allow"
    /\ ( Checked /\ last.out = "allow" ) => ( SuccessResponse /\ Decision = "true" )
    /\ ( Checked /\ SuccessResponse /\ Decision \notin { "true", "false" } )
       => last.out = "403"

(* the step is the first stage of a request: extraction and cache lookup *)
Extracted == last.op = "AuthGuard"

(* the step is an access guard entered after AuthGuard on a restricted route *)
GuardStage == GuardEntered /\ last.authed /\ Restricted

(* the step ends an access check of a request that came through AuthGuard *)
CheckStage == Checked /\ last.authed

(* the step belongs to a request on AuthGuard followed by a restricted guard *)
PipelineStep == Extracted \/ Introspected \/ GuardStage \/ CheckStage

(* C11: over AuthGuard followed by PermissionGuard / RoleGuard with a
   non-empty requirement set, the request ends in 401 exactly when no token
   was found or introspection gave UnauthorizedException, in 503 exactly
   when an authority call gave ServiceUnavailableException, in 400 exactly
   when the guard finds x-org-id blank, in 403 exactly when the remote check
   returned false, and is allowed only otherwise. *)
C11_DistinctOutcomes ==
    PipelineStep =>
      /\ ( last.out = "401" )
            <=> ( \/ ( Extracted /\ IsBlank(last.token) )
                  \/ ( Introspected /\ last.vres = "Unauthorized" ) )
      /\ ( last.out = "503" )
            <=> ( \/ ( Introspected /\ last.vres = "ServiceUnavailable" )
                  \/ ( CheckStage /\ last.cres = "ServiceUnavailable" ) )
      /\ ( last.out = "400" ) <=> ( GuardStage /\ BlankHeader(last.org) )
      /\ ( last.out = "403" ) <=> ( CheckStage /\ last.cres = "false" )
      /\ ( CheckStage /\ last.out = "allow" ) => last.cres = "true"

(* the strings that follow the prefix 'Bearer ' in the header h: one string
   when h starts with the prefix, none otherwise *)
AfterBearer(h) ==
    IF IsSome(h)
    THEN { SubSeq(The(h), i, Len(The(h))) : i \in 1 .. Len(The(h)) + 1 }
         \cap { rest \in Seq(STRING) : BearerPrefix \o rest = The(h) }
    ELSE { }

(* the request has a cookies object with a non-empty access_token *)
HasCookie(jar) ==
    /\ IsSome(jar)
    /\ IsSome(The(jar))
    /\ The(The(jar)) # EmptyString

(* C12: when the Authorization header starts with 'Bearer ', extractToken
   returns what follows the prefix, whether or not the request also has an
   access_token cookie. *)
C12_HeaderFirst ==
    ( Extracted /\ AfterBearer(last.authorization) # { } )
    => /\ IsSome(last.token)
       /\ The(last.token) \in AfterBearer(last.authorization)

C12_Witness ==
    /\ Extracted
    /\ last.authorization = Some(BearerPrefix \o T1)
    /\ last.cookies = Some(Some(T2))
    /\ last.token = Some(T1)

(* C13: when the Authorization header is absent or does not start with
   'Bearer ', and the access_token cookie is present and non-empty,
   extractToken returns the cookie's value. *)
C13_CookieFallback ==
    ( Extracted /\ AfterBearer(last.authorization) = { } /\ HasCookie(last.cookies) )
    => last.token = The(last.cookies)

C13_Witness ==
    /\ Extracted
    /\ last.authorization = Some(LowerBearerPrefix \o T1)
    /\ last.cookies = Some(Some(T2))
    /\ last.token = Some(T2)

(* C14: for a request with neither a 'Bearer '-prefixed Authorization header
   nor a non-empty access_token cookie, also one without a cookies object,
   extractToken returns undefined as a normal value. *)
C14_AbsentIsNormal ==
    ( Extracted /\ AfterBearer(last.authorization) = { } /\ ~ HasCookie(last.cookies) )
    => last.token = None

C14_Witness ==
    /\ Extracted
    /\ last.authorization = Some(BasicPrefix \o T1)
    /\ last.cookies = None
    /\ last.token = None
    /\ last.out = "401"

(* C15: when the extractor finds no token, AuthGuard fails with 401 without
   calling validateToken: no introspection request is issued, request.user
   is not set and the request is over. *)
C15_MissingCredential ==
    ( Extracted /\ IsBlank(last.token) )
    => /\ last.out = "401"
       /\ last.vres = "none"
       /\ last.sent = << >>
       /\ last.user = None
       /\ task[last.t] = IdleTask

C15_Witness ==
    /\ Extracted
    /\ last.authorization = None
    /\ last.cookies = Some(None)
    /\ last.token = None
    /\ last.out = "401"
    /\ last.sent = << >>
    /\ task[last.t].user = None

(* validateToken returned a User in this step, from the cache or the network *)
Validated == ( Extracted \/ Introspected ) /\ last.vres = "ok"

(* the User has a subject that is present and non-empty *)
HasSubject(user) == user.sub \notin { UNDEF, "null", "''" }

(* C16: every User returned by a successful validateToken, held in the
   cache or attached to a request by AuthGuard has a subject that is present
   and non-empty. *)
C16_SubjectPresent ==
    /\ Validated => HasSubject(The(last.user))
    /\ \A k \in DOMAIN tokenCache : HasSubject(tokenCache[k].user)
    /\ \A t \in Tasks : task[t].authed => HasSubject(The(task[t].user))

(* the token validateToken was called with in this step *)
ValidatedToken == IF Extracted THEN The(last.token) ELSE last.token

(* C17: each cache entry stored under token T holds a User whose
   accessToken is T and which was built from an introspection response with
   active = true; every User returned by validateToken(T), from the cache or
   from the network, has accessToken = T. *)
C17_CredentialKept ==
    /\ \A k \in DOMAIN tokenCache : tokenCache[k].user.accessToken = k
    /\ Validated => The(last.user).accessToken = ValidatedToken
    /\ ( Introspected /\ last.vres = "ok" )
       => /\ IsSome(last.outcome.data)
          /\ The(last.outcome.data).active = "true"
          /\ ( ~ isDevEnv(nodeEnv) )
                => /\ last.token \in DOMAIN tokenCache
                   /\ tokenCache[last.token].user = The(last.user)

(* C18: a cache entry is returned only while now < expiresAt.  A
   validateToken(T) call made at or after the entry's expiresAt issues a new
   introspection request instead of returning the cached User, and a call
   answered from the cache found an entry of T with now < expiresAt. *)
C18_ExpiredIsAbsent ==
    [][ \A T \in Tokens :
          /\ ( /\ ValidateCalled(T)
               /\ T \in DOMAIN tokenCache
               /\ now >= tokenCache[T].expiresAt )
             => /\ last'.sent = << IntrospectRequest(T) >>
                /\ last'.vres = "pending"
                /\ last'.user = None
          /\ ( ValidateCalled(T) /\ last'.vres = "ok" )
             => /\ T \in DOMAIN tokenCache
                /\ now < tokenCache[T].expiresAt
                /\ last'.user = Some(tokenCache[T].user) ]_vars

C18_Witness ==
    /\ Extracted
    /\ ~ isDevEnv(nodeEnv)
    /\ \E T \in Tokens :
         /\ last.token = Some(T)
         /\ T \in DOMAIN tokenCache
         /\ tokenCache[T].expiresAt = now
         /\ last.sent = << IntrospectRequest(T) >>

(* the User that the body of the response in this step describes *)
UserOfResponse ==
    [ sub         |-> The(last'.outcome.data).sub,
      role        |-> The(last'.outcome.data).role,
      permissions |-> The(last'.outcome.data).permissions,
      accessToken |-> last'.token ]

(* C19: with caching enabled, every successful network validation of token
   T replaces whatever entry exists for T with the User built from this
   response and expiresAt = the time of the store + 30 s, whenever the
   request was sent; the other entries stay as they are. *)
C19_StoreReplaces ==
    [][ ( /\ last'.op = "introspected"
          /\ last'.vres = "ok"
          /\ ~ isDevEnv(nodeEnv) )
        => /\ DOMAIN tokenCache' = DOMAIN tokenCache \cup { last'.token }
           /\ tokenCache'[last'.token] =
                 [user |-> UserOfResponse, expiresAt |-> now + INTROSPECTION_TTL_MS]
           /\ \A k \in DOMAIN tokenCache :
                 k # last'.token => tokenCache'[k] = tokenCache[k] ]_vars

C19_Witness ==
    /\ Introspected
    /\ last.vres = "ok"
    /\ last.afterTick
    /\ ~ isDevEnv(nodeEnv)
    /\ now > 0
    /\ tokenCache[last.token].user = The(last.user)
    /\ tokenCache[last.token].expiresAt = now + INTROSPECTION_TTL_MS

(* C20: no retry.  A validateToken call that misses the cache issues
   exactly one introspection request and a checkPermission / checkRole call
   exactly one check request: one when the call starts, and none when the
   outcome arrives, whatever the outcome is. *)
C20_NoRetry ==
    /\ ( Extracted /\ last.vres = "pending" )
       => /\ last.sent = << IntrospectRequest(The(last.token)) >>
          /\ task[last.t].inflight = Some(last.sent[1])
    /\ ( GuardEntered /\ last.out = "pending" )
       => /\ Len(last.sent) = 1
          /\ last.sent[1].to = ( IF last.op = "PermissionGuard" THEN "check-permission"
                                                                 ELSE "check-role" )
          /\ task[last.t].inflight = Some(last.sent[1])
    /\ ( Introspected \/ Checked )
       => /\ last.sent = << >>
          /\ task[last.t].inflight = None
          /\ task[last.t].pc \in { "idle", "authed" }

C20_Witness ==
    /\ last.op = "permissionChecked"
    /\ GotResponse
    /\ last.outcome.status = 503
    /\ last.sent = << >>
    /\ task[last.t] = IdleTask

(* the guard goes on to the remote check: a requirement, a subject and an
   organisation are there *)
CheckCalled == GuardEntered /\ Restricted /\ SubjectAttached /\ ~ BlankHeader(last.org)

(* what a check makes of the outcome it received, read off the outcome alone *)
AnswerOf(o, field) ==
    IF o.kind = "response" /\ o.status >= 200 /\ o.status < 300
    THEN IF IsSome(o.data) /\ The(o.data)[field] \notin JsFalsy THEN "true" ELSE "false"
    ELSE IF o.kind = "response" /\ o.status < 500 THEN "false" ELSE "ServiceUnavailable"

(* C21: authorization decisions are never cached.  Every checkPermission /
   checkRole call issues its request, also when the check before it was for
   the identical request, and its result reflects only the authority's
   answer to this call. *)
C21_NoDecisionCache ==
    /\ CheckCalled => ( Len(last.sent) = 1 /\ last.out = "pending" )
    /\ Checked
       => last.cres = AnswerOf(last.outcome, IF last.op = "permissionChecked"
                                             THEN "hasPermission" ELSE "hasRole")

C21_Witness ==
    /\ last.op = "permissionChecked"
    /\ last.repeat = Some("true")
    /\ last.cres = "false"
    /\ last.out = "403"

(* C22: on a success response checkPermission / checkRole returns exactly
   the authority's decision field, an absent field or an absent body being
   false; the result is read off the response alone, whatever the match mode
   and the length of the requirement list of the request. *)
C22_ReturnsDecisionField ==
    ( Checked /\ SuccessResponse )
    => last.cres = ( IF Decision = "true" THEN "true" ELSE "false" )

(* C23: when the requirement set of the route is empty or not declared,
   PermissionGuard / RoleGuard allows at once: no check request is issued,
   and the outcome is the same for every user and every header. *)
C23_NoRequirementAllows ==
    ( GuardEntered /\ ~ Restricted )
    => /\ last.out = "allow"
       /\ last.cres = "none"
       /\ last.sent = << >>
       /\ task[last.t].inflight = None

C23_Witness ==
    /\ last.op = "RoleGuard"
    /\ last.required = [type |-> "array", arr |-> << >>]
    /\ last.user = None
    /\ last.org = None
    /\ last.out = "allow"
    /\ last.sent = << >>

(* the list of the request the guard sent: permissions or roles *)
SentList ==
    IF last.op = "PermissionGuard" THEN last.sent[1].permissions ELSE last.sent[1].roles

(* C24: the match mode sent to the authority is 'all' when the route
   declares none and the declared mode otherwise; a single string
   requirement is sent as a one-element list, a list as it is. *)
C24_MatchAndList ==
    ( GuardEntered /\ last.sent # << >> )
    => /\ last.sent[1].match = ( IF last.match = None THEN "all" ELSE The(last.match) )
       /\ SentList = ( IF last.required.type = "string"
                       THEN << last.required.str >>
                       ELSE last.required.arr )

C24_Witness ==
    /\ last.op = "PermissionGuard"
    /\ last.required = [type |-> "string", str |-> "a"]
    /\ last.match = None
    /\ Len(last.sent) = 1
    /\ last.sent[1].match = "all"
    /\ last.sent[1].permissions = << "a" >>

(* AuthGuard is through with the request in this step *)
AuthDone == ( Extracted \/ Introspected ) /\ last.out # "pending"

(* C25: on a successful validation AuthGuard attaches the validated User to
   the request and allows; on every failure (no token, 401 or 503 from
   validateToken) request.user is left exactly as it was before the guard. *)
C25_UserSetOnSuccessOnly ==
    AuthDone =>
      IF last.out = "allow"
      THEN /\ last.vres = "ok"
           /\ IsSome(last.user)
           /\ The(last.user).accessToken = ValidatedToken
           /\ Introspected => The(last.user).sub = The(last.outcome.data).sub
           /\ task[last.t].pc = "authed"
           /\ task[last.t].user = last.user
      ELSE /\ last.out \in { "401", "503" }
           /\ last.user = last.before

C25_Witness ==
    /\ Introspected
    /\ last.before = Some(UpstreamUser("u0"))
    /\ last.out = "503"
    /\ last.user = Some(UpstreamUser("u0"))

(* C26: when NODE_ENV is not set the mode is 'development': the cache is
   disabled, so every validateToken call issues its introspection request
   and neither the call nor its continuation changes the cache. *)
C26_UnsetIsDevelopment ==
    [][ /\ ( /\ last'.op = "AuthGuard"
             /\ ~ IsBlank(last'.token)
             /\ nodeEnv = None )
           => /\ last'.sent = << IntrospectRequest(The(last'.token)) >>
              /\ tokenCache' = tokenCache
        /\ ( last'.op = "introspected" /\ nodeEnv = None )
           => tokenCache' = tokenCache ]_vars

(* the outcome with the values of hasPermission and hasRole exchanged *)
Mirror(o) ==
    IF IsSome(o.data)
    THEN [o EXCEPT !.data = Some(CheckBody(The(o.data).hasRole, The(o.data).hasPermission))]
    ELSE o

(* what either guard does on entry, read off the route and the request *)
EntryOutcome ==
    IF ~ Restricted THEN "allow"
    ELSE IF ~ SubjectAttached THEN "403"
    ELSE IF BlankHeader(last.org) THEN "400"
    ELSE "pending"

(* the request of a guard without what names its kind: endpoint and list *)
Unnamed(req) ==
    [ userId |-> req.userId, orgId |-> req.orgId, workspaceId |-> req.workspaceId,
      objectType |-> req.objectType, objectId |-> req.objectId, match |-> req.match,
      bearer |-> req.bearer,
      list |-> IF req.to = "check-permission" THEN req.permissions ELSE req.roles ]

(* C27: the permission path and the role path behave alike.  On the same
   route data, user and headers PermissionGuard and RoleGuard take the same
   way and send the same request apart from endpoint and list name; on the
   same authority outcome, with hasPermission and hasRole carrying the same
   value, checkPermission and checkRole give the same result or error and
   the guards the same allow / 403 / 503. *)
C27_PathsAlike ==
    /\ GuardEntered
       => /\ last.out = EntryOutcome
          /\ ( last.sent # << >> )
             => ( Unnamed(last.sent[1]) =
                  Unnamed(IF last.op = "PermissionGuard"
                          THEN RoleCheckRequest(The(last.user), SentList,
                                                last.sent[1].match, GuardContext(last.org, last.scope))
                          ELSE PermissionCheckRequest(The(last.user), SentList,
                                                last.sent[1].match, GuardContext(last.org, last.scope))) )
    /\ last.op = "permissionChecked"
       => /\ last.cres = CheckRoleOutcome(Mirror(last.outcome))
          /\ last.out = RoleGuardOutcome(CheckRoleOutcome(Mirror(last.outcome)))
    /\ last.op = "roleChecked"
       => /\ last.cres = CheckPermissionOutcome(Mirror(last.outcome))
          /\ last.out = PermissionGuardOutcome(CheckPermissionOutcome(Mirror(last.outcome)))

C27_Witness ==
    /\ last.op = "roleChecked"
    /\ SuccessResponse
    /\ IsSome(last.outcome.data)
    /\ The(last.outcome.data).hasRole = "true"
    /\ The(last.outcome.data).hasPermission = UNDEF
    /\ last.cres = "true"
    /\ last.out = "allow"

(* C28: within one request, the bearer credential of a check-permission /
   check-role call is the token that the extractor returned and that
   validateToken validated for this request, from the cache or from the
   network, and the userId sent is the subject of the User it returned. *)
C28_CredentialForwarded ==
    ( GuardEntered /\ last.authed /\ last.sent # << >> )
    => /\ IsSome(task[last.t].token)
       /\ last.sent[1].bearer = The(task[last.t].token)
       /\ last.user = task[last.t].user
       /\ last.sent[1].userId = The(last.user).sub

C28_Witness ==
    /\ last.op = "PermissionGuard"
    /\ last.authed
    /\ Len(last.sent) = 1
    /\ task[last.t].token = Some(T2)
    /\ last.sent[1].bearer = T2
    /\ last.sent[1].userId = "u1"

(* C29: a PermissionGuard / RoleGuard with a non-empty requirement set
   issues an authority request only for a request that carries a User with
   a non-empty subject; run without one (no request.user, or a user without
   sub) it fails with 403 and issues no request. *)
C29_SubjectBeforeCheck ==
    ( GuardEntered /\ Restricted )
    => /\ ( last.sent # << >> ) => SubjectAttached
       /\ ( ~ SubjectAttached )
          => /\ last.out = "403"
             /\ last.sent = << >>
             /\ task[last.t].inflight = None

C29_Witness ==
    /\ last.op = "PermissionGuard"
    /\ Restricted
    /\ last.user = Some(UpstreamUser("''"))
    /\ last.org = Some(ORG1)
    /\ last.out = "403"
    /\ last.sent = << >>

(* the step completes a validateToken(T) call that succeeds and stores,
   after another call for T stored while this one was in flight *)
SecondOfTwo ==
    /\ last'.op = "introspected"
    /\ last'.vres = "ok"
    /\ last'.overlapped
    /\ ~ isDevEnv(nodeEnv)

(* C30 as stated: of two in-flight validateToken(T) calls that both succeed,
   the cache entry for T after both complete is the one written by the call
   that completed last, and it equals, apart from expiresAt, the entry that
   the other call wrote. *)
C30_EquivalentWriters ==
    [][ SecondOfTwo
        => /\ tokenCache'[last'.token] =
                 [user |-> The(last'.user), expiresAt |-> now + INTROSPECTION_TTL_MS]
           /\ last'.token \in DOMAIN tokenCache
           /\ tokenCache'[last'.token].user = tokenCache[last'.token].user ]_vars

(* C30 amended: of two in-flight validateToken(T) calls that both succeed,
   the cache entry for T after both complete is the one written by the call
   that completed last: the User of its own response, expiring 30 s after
   its completion.  The entry of the other call is replaced, whether or not
   the authority gave both calls the same answer. *)
C30_LastWriterWins ==
    [][ SecondOfTwo
        => /\ last'.token \in DOMAIN tokenCache
           /\ tokenCache'[last'.token] =
                 [user |-> UserOfResponse, expiresAt |-> now + INTROSPECTION_TTL_MS] ]_vars

C30_Witness ==
    /\ Introspected
    /\ last.vres = "ok"
    /\ last.overlapped
    /\ The(last.user).sub = "u2"
    /\ tokenCache[last.token].user = The(last.user)
    /\ IsSome(lastSuccess[last.token])
    /\ \A t \in Tasks : ~ Overlaps(t, last.token)

(* the step completes a validateToken call that succeeds *)
ValidateSucceeds == last'.op = "introspected" /\ last'.vres = "ok"

(* C31: within one validateToken call the cache lookup and the cache store
   observe the same development-mode decision: a call that bypassed the
   lookup leaves the cache as it is, and a call that consulted the cache
   stores its User on success. *)
C31_OneDecisionPerCall ==
    [][ ValidateSucceeds
        => /\ ( ~ last'.consulted ) => ( tokenCache' = tokenCache )
           /\ ( last'.consulted )
              => ( /\ last'.token \in DOMAIN tokenCache'
                   /\ tokenCache'[last'.token] =
                         [user |-> The(last'.user),
                          expiresAt |-> now + INTROSPECTION_TTL_MS] ) ]_vars

(* task t awaits the authority's answer to an introspection or check request *)
Awaiting(t) == task[t].pc \in { "introspect", "checkPermission", "checkRole" }

(* C32: every validateToken, checkPermission and checkRole invocation that
   has sent its request eventually completes, with a result or an error,
   even if the authority never answers. *)
C32_EveryCallCompletes == \A t \in Tasks : Awaiting(t) ~> ~ Awaiting(t)

(* C33: the introspection cache is one process-wide mapping that starts
   empty: with caching enabled, a validateToken(T) call made through one
   instance less than 30 s after another instance stored a successful
   introspection of T issues no request and returns the stored User. *)
C33_SharedAcrossInstances ==
    /\ tokenCache = << >>
    /\ [][ \A T \in Tokens :
              ( /\ ValidateCalled(T)
                /\ ~ isDevEnv(nodeEnv)
                /\ Within30s(lastStored[T])
                /\ The(lastStored[T]).by \notin { 0, InstanceOf(last'.t) } )
              => ServedFromCache(lastStored[T]) ]_vars

C33_Witness ==
    /\ Extracted
    /\ last.vres = "ok"
    /\ last.sent = << >>
    /\ IsSome(lastStored[The(last.token)])
    /\ The(lastStored[The(last.token)]).by \notin { 0, InstanceOf(last.t) }
    /\ The(lastStored[The(last.token)]).at < now
    /\ last.user = Some(The(lastStored[The(last.token)]).user)

(* C34: cache entries are created only by a successful introspection and
   are never deleted: every cached token stays cached, and a step that
   changes the cache is the completion of a successful validateToken; a
   failed validateToken, a cache hit and every checkPermission / checkRole
   call leave the cache exactly as it was. *)
C34_OnlySuccessWrites ==
    [][ /\ DOMAIN tokenCache \subseteq DOMAIN tokenCache'
        /\ ( tokenCache' # tokenCache )
           => ( last'.op = "introspected" /\ last'.vres = "ok" )
        /\ ( last'.op = "introspected" /\ last'.vres # "ok" ) => ( tokenCache' = tokenCache )
        /\ ( last'.op \in { "AuthGuard", "PermissionGuard", "RoleGuard",
                            "permissionChecked", "roleChecked" } )
           => ( tokenCache' = tokenCache ) ]_vars

C34_Witness ==
    /\ Introspected
    /\ last.vres # "ok"
    /\ last.token = T2
    /\ T1 \in DOMAIN tokenCache
    /\ tokenCache[T1] = [user |-> The(lastStored[T1]).user,
                         expiresAt |-> The(lastStored[T1]).at + INTROSPECTION_TTL_MS]

(* the step's request failed: no response, or a status outside 2xx *)
RequestFailed == ( Introspected \/ Checked ) /\ ~ AxiosResolves(last.outcome)

(* the failure has no status, or a status of 500 and above *)
NoStatusOr5xx == ( ~ GotResponse ) \/ last.outcome.status >= 500

(* C35: the error classification is one mapping shared by validateToken,
   checkPermission and checkRole: for every failed request each of the three
   raises ServiceUnavailableException exactly when there is no status or the
   status is 500 or above, and for every other error status validateToken
   raises UnauthorizedException where the access checks return false. *)
C35_SharedClassification ==
    RequestFailed
    => /\ ( ValidateOutcome(T1, last.outcome).res = "ServiceUnavailable" ) <=> ( NoStatusOr5xx )
       /\ ( CheckPermissionOutcome(last.outcome) = "ServiceUnavailable" ) <=> ( NoStatusOr5xx )
       /\ ( CheckRoleOutcome(last.outcome) = "ServiceUnavailable" ) <=> ( NoStatusOr5xx )
       /\ ( ~ NoStatusOr5xx )
          => ( /\ ValidateOutcome(T1, last.outcome).res = "Unauthorized"
               /\ CheckPermissionOutcome(last.outcome) = "false"
               /\ CheckRoleOutcome(last.outcome) = "false" )
       /\ ( Introspected ) => ( last.vres = ValidateOutcome(T1, last.outcome).res )
       /\ ( last.op = "permissionChecked" ) => ( last.cres = CheckPermissionOutcome(last.outcome) )
       /\ ( last.op = "roleChecked" ) => ( last.cres = CheckRoleOutcome(last.outcome) )

C35_Witness ==
    /\ last.op = "permissionChecked"
    /\ GotResponse
    /\ last.outcome.status = 503
    /\ last.cres = "ServiceUnavailable"
    /\ ValidateOutcome(T1, last.outcome).res = "ServiceUnavailable"
    /\ CheckRoleOutcome(last.outcome) = "ServiceUnavailable"

(* C36: the error taxonomy is closed: validateToken ends in a User, an
   UnauthorizedException or a ServiceUnavailableException; checkPermission
   and checkRole end in a boolean or a ServiceUnavailableException; and
   AuthGuard answers 401 to every failure of validateToken that is not a
   ServiceUnavailableException, and 503 to that. *)
C36_ClosedTaxonomy ==
    /\ ( Introspected )
       => ( /\ last.vres \in { "ok", "Unauthorized", "ServiceUnavailable" }
            /\ ( last.vres = "ok" ) <=> ( last.out = "allow" )
            /\ ( last.vres = "ServiceUnavailable" ) <=> ( last.out = "503" )
            /\ ( last.vres = "Unauthorized" ) <=> ( last.out = "401" ) )
    /\ ( Checked )
       => ( /\ last.cres \in { "true", "false", "ServiceUnavailable" }
            /\ last.out \in { "allow", "403", "503" } )

C36_Witness ==
    /\ Introspected
    /\ GotResponse
    /\ last.outcome.status = 401
    /\ last.vres = "Unauthorized"
    /\ last.out = "401"

(* C37: in the middleware integration a ServiceUnavailableException raised
   by validateToken, checkPermission or checkRole reaches the client as 503,
   not as 401 or 403. *)
C37_MiddlewareKeeps503 ==
    /\ ( last.op = "mwIntrospected" /\ last.vres = "ServiceUnavailable" )
       => ( last.out = "503" )
    /\ ( last.op \in { "mwPermissionChecked", "mwRoleChecked" }
         /\ last.cres = "ServiceUnavailable" )
       => ( last.out = "503" )

(* the age of the latest stored introspection of T *)
AgeOfStored(T) == now - The(lastStored[T]).at

(* C38: bounded staleness.  A User that validateToken returns from the cache
   is the User of the latest introspection response stored for the token,
   stored less than 30 s before; a User returned after a request is the User
   of that response; a cache hit leaves the entry and its expiry as they
   are; and with caching enabled a call made 30 s or more after the latest
   stored response issues a new introspection request. *)
C38_BoundedStaleness ==
    [][ /\ \A T \in Tokens :
             /\ ( ValidateCalled(T) /\ last'.vres = "ok" )
                => ( /\ IsSome(lastStored[T])
                     /\ last'.user = Some(The(lastStored[T]).user)
                     /\ AgeOfStored(T) < INTROSPECTION_TTL_MS
                     /\ tokenCache' = tokenCache
                     /\ tokenCache[T].expiresAt =
                           The(lastStored[T]).at + INTROSPECTION_TTL_MS )
             /\ ( /\ ValidateCalled(T)
                  /\ IsSome(lastStored[T])
                  /\ AgeOfStored(T) >= INTROSPECTION_TTL_MS )
                => ( last'.sent = << IntrospectRequest(T) >> )
        /\ ( last'.op = "introspected" /\ last'.vres = "ok" )
           => ( last'.user = Some(UserOfResponse) ) ]_vars

C38_Witness ==
    /\ Extracted
    /\ last.vres = "ok"
    /\ last.sent = << >>
    /\ \E T \in Tokens :
         /\ last.token = Some(T)
         /\ IsSome(lastStored[T])
         /\ AgeOfStored(T) = INTROSPECTION_TTL_MS - TickMs
         /\ tokenCache[T].expiresAt = The(lastStored[T]).at + INTROSPECTION_TTL_MS
         /\ last.user = Some(The(lastStored[T]).user)

(* C39: no request coalescing.  With caching enabled, a validateToken(T)
   call started while no unexpired entry for T exists issues an
   introspection request of its own, whatever number of calls already have
   one in flight for T: k such calls started before any completes have k
   requests in flight. *)
C39_NoCoalescing ==
    [][ \A T \in Tokens :
          ( /\ ValidateCalled(T)
            /\ ~ isDevEnv(nodeEnv)
            /\ ~ CacheFresh(tokenCache, T, now) )
          => ( /\ last'.sent = << IntrospectRequest(T) >>
               /\ InFlight(T)' = InFlight(T) \cup { last'.t }
               /\ Cardinality(InFlight(T)') = Cardinality(InFlight(T)) + 1
               /\ \A u \in InFlight(T)' :
                     task'[u].inflight = Some(IntrospectRequest(T)) ) ]_vars

C39_Witness ==
    /\ Extracted
    /\ last.vres = "pending"
    /\ ~ isDevEnv(nodeEnv)
    /\ InFlight(The(last.token)) = Tasks
    /\ \A u \in Tasks : task[u].inflight = Some(IntrospectRequest(The(last.token)))
    /\ last.sent = << IntrospectRequest(The(last.token)) >>

(* C40: when the Authorization header is the prefix 'Bearer ' with nothing
   after it, extractToken returns the empty string whatever the
   access_token cookie holds, and AuthGuard fails with 401 without calling
   validateToken: no introspection request is issued. *)
C40_BarePrefixIsMissing ==
    ( Extracted /\ last.authorization = Some(BearerPrefix) )
    => /\ last.token = Some(EmptyString)
       /\ last.out = "401"
       /\ last.vres = "none"
       /\ last.sent = << >>
       /\ task[last.t] = IdleTask

C40_Witness ==
    /\ Extracted
    /\ last.authorization = Some(BearerPrefix)
    /\ last.cookies = Some(Some(T1))
    /\ last.token = Some(EmptyString)
    /\ last.out = "401"
    /\ last.sent = << >>

====
